---- MODULE Spec2Model ----
(***************************************************************************)
(* A model of the OAuth 1.0a client of src/src/oauth.js (class OAuth,      *)
(* lines 341-725) and of its percent-encoder src/src/encoding/uri.js.      *)
(*                                                                         *)
(* Strings are sequences of characters; a character is a one-character     *)
(* TLA+ string, except "U+00E9", which stands for the single non-ASCII     *)
(* character of that code point.  The JavaScript values null and undefined *)
(* are the one-element sequences Null and Undefined, which no string       *)
(* equals because their element is not a character.                        *)
(***************************************************************************)
EXTENDS Integers, Sequences, FiniteSets

VARIABLES
    consumerKey,     \* #consumerKey
    consumerSecret,  \* #consumerSecret
    token,           \* #token
    tokenSecret,     \* #tokenSecret
    call,            \* the most recent public call: its name and arguments
    outcome,         \* what that call returned or threw
    signing,         \* history: what #generateSignature was given and built
    written,         \* history: the pair most recently handed to setToken
    authLog,         \* history: the previous generateAuthURL call and its URL
    suspended,       \* the calls waiting at an await (specification SpecAsync)
    writtenPairs,    \* history: the pairs written together (SpecAsync)
    encCase,         \* the percent-encoder's run (specification SpecEncode)
    canonCase        \* the canonicaliser's run (specification SpecCanon)

vars == <<consumerKey, consumerSecret, token, tokenSecret, call, outcome,
          signing, written, authLog, suspended, writtenPairs, encCase, canonCase>>

asyncVars == <<suspended, writtenPairs>>

clientVars == <<consumerKey, consumerSecret, token, tokenSecret, call, outcome,
                signing, written, authLog, suspended,
                writtenPairs>>

-----------------------------------------------------------------------------
(* Characters and JavaScript values *)

Null == <<"null">>

Undefined == <<"undefined">>

NonAscii == "U+00E9"

\* The printable ASCII characters, code 32 first ("U+0060" is the grave
\* accent, which a TLA+ string cannot hold).
Ascii ==
    <<" ", "!", "\"", "#", "$", "%", "&", "'", "(", ")", "*", "+", ",", "-",
      ".", "/", "0", "1", "2", "3", "4", "5", "6", "7", "8", "9", ":", ";",
      "<", "=", ">", "?", "@", "A", "B", "C", "D", "E", "F", "G", "H", "I",
      "J", "K", "L", "M", "N", "O", "P", "Q", "R", "S", "T", "U", "V", "W",
      "X", "Y", "Z", "[", "\\", "]", "^", "_", "U+0060", "a", "b", "c", "d", "e",
      "f", "g", "h", "i", "j", "k", "l", "m", "n", "o", "p", "q", "r", "s",
      "t", "u", "v", "w", "x", "y", "z", "{", "|", "}", "~">>

AsciiChars == {Ascii[i] : i \in 1..Len(Ascii)}

\* String.prototype.charCodeAt: the UTF-16 code unit of a character.
CharCode ==
    [c \in AsciiChars \cup {NonAscii} |->
        IF c = NonAscii THEN 233
        ELSE 31 + (CHOOSE i \in 1..Len(Ascii) : Ascii[i] = c)]

\* The UTF-8 bytes of a character (TextEncoder, and encodeURIComponent).
Utf8 ==
    [c \in AsciiChars \cup {NonAscii} |->
        IF c = NonAscii THEN <<195, 169>> ELSE <<CharCode[c]>>]

FromCharCode(n) == Ascii[n - 31]

UpperChars == {FromCharCode(n) : n \in 65..90}

LowerChars == {FromCharCode(n) : n \in 97..122}

DigitChars == {FromCharCode(n) : n \in 48..57}

HexUpperDigits ==
    <<"0", "1", "2", "3", "4", "5", "6", "7", "8", "9", "A", "B", "C", "D", "E", "F">>

HexLowerDigits ==
    <<"0", "1", "2", "3", "4", "5", "6", "7", "8", "9", "a", "b", "c", "d", "e", "f">>

\* Number.prototype.toString(16): lowercase, no padding.
ToString16(n) ==
    IF n < 16 THEN <<HexLowerDigits[n + 1]>>
    ELSE <<HexLowerDigits[(n \div 16) + 1], HexLowerDigits[(n % 16) + 1]>>

RECURSIVE ToDecimal(_)
\* String(n) of a non-negative integer.
ToDecimal(n) ==
    IF n < 10 THEN <<FromCharCode(48 + n)>>
    ELSE ToDecimal(n \div 10) \o <<FromCharCode(48 + (n % 10))>>

\* The string a value is coerced to where a string is expected.
StringOf(v) ==
    IF v = Null THEN <<"n", "u", "l", "l">>
    ELSE IF v = Undefined THEN <<"u", "n", "d", "e", "f", "i", "n", "e", "d">>
    ELSE v

\* String.prototype.toUpperCase.
ToUpperChar(c) ==
    IF c \in LowerChars THEN FromCharCode(CharCode[c] - 32) ELSE c

toUpperCase(s) == [i \in 1..Len(s) |-> ToUpperChar(s[i])]

\* The concatenation of the strings of a list (cut in four, which keeps the
\* depth low).
RECURSIVE Flatten(_)
Flatten(ss) ==
    LET n == Len(ss)
        q == n \div 4
    IN  IF n = 0 THEN <<>>
        ELSE IF n = 1 THEN ss[1]
        ELSE IF n = 2 THEN ss[1] \o ss[2]
        ELSE IF n = 3 THEN ss[1] \o ss[2] \o ss[3]
        ELSE IF n = 4 THEN ss[1] \o ss[2] \o ss[3] \o ss[4]
        ELSE IF n = 5 THEN ss[1] \o ss[2] \o ss[3] \o ss[4] \o ss[5]
        ELSE IF n = 6 THEN ss[1] \o ss[2] \o ss[3] \o ss[4] \o ss[5] \o ss[6]
        ELSE IF n = 7
        THEN ss[1] \o ss[2] \o ss[3] \o ss[4] \o ss[5] \o ss[6] \o ss[7]
        ELSE Flatten(SubSeq(ss, 1, q)) \o Flatten(SubSeq(ss, q + 1, 2 * q))
                \o Flatten(SubSeq(ss, 2 * q + 1, 3 * q))
                \o Flatten(SubSeq(ss, 3 * q + 1, n))

\* Array.prototype.join.
Join(ss, sep) ==
    Flatten([i \in 1..Len(ss) |-> IF i = 1 THEN ss[i] ELSE sep \o ss[i]])

\* The strings a < b of JavaScript: by code unit at the first place they
\* differ, a proper prefix first.
StrLess(a, b) ==
    LET n == IF Len(a) < Len(b) THEN Len(a) ELSE Len(b)
        differ == {i \in 1..n : a[i] # b[i]}
    IN  IF differ = {} THEN Len(a) < Len(b)
        ELSE LET i == CHOOSE j \in differ : \A k \in differ : j <= k
             IN  CharCode[a[i]] < CharCode[b[i]]

-----------------------------------------------------------------------------
(* src/src/encoding/uri.js *)

\* What encodeURIComponent leaves as it is: A-Z a-z 0-9 - _ . ! ~ * ' ( )
UnreservedRFC2396 ==
    UpperChars \cup LowerChars \cup DigitChars
        \cup {"-", "_", ".", "!", "~", "*", "'", "(", ")"}

\* The characters the replace() of encodeURIComponentRFC3986 matches.
ReplacedChars == {"!", "'", "(", ")", "*"}

EscapeByte(b) == <<"%", HexUpperDigits[(b \div 16) + 1], HexUpperDigits[(b % 16) + 1]>>

EscapeChar(c) == Flatten([i \in 1..Len(Utf8[c]) |-> EscapeByte(Utf8[c][i])])

\* encodeURIComponent, a character: every UTF-8 byte of a character outside
\* the unreserved set becomes %XX, with upper-case hex digits.
EncodeCharRFC2396 ==
    [c \in AsciiChars \cup {NonAscii} |->
        IF c \in UnreservedRFC2396 THEN <<c>> ELSE EscapeChar(c)]

encodeURIComponentRFC2396(uriComponent) ==
    LET s == StringOf(uriComponent)
    IN  Flatten([i \in 1..Len(s) |-> EncodeCharRFC2396[s[i]]])

\* .replace(/[!'()*]/g, char => `%${char.charCodeAt().toString(16)}`), a
\* character.
ReplaceChar ==
    [c \in AsciiChars \cup {NonAscii} |->
        IF c \in ReplacedChars THEN <<"%">> \o ToString16(CharCode[c]) ELSE <<c>>]

\* The mutant: the replace() of ! ' ( ) * is left out.
encodeURIComponentRFC3986_NoReplace(uriComponent) ==
    encodeURIComponentRFC2396(uriComponent)

\* String.prototype.replace with the pattern and the function of
\* encodeURIComponentRFC3986.
replace(s) == Flatten([i \in 1..Len(s) |-> ReplaceChar[s[i]]])

encodeURIComponentRFC3986(uriComponent) ==
    replace(encodeURIComponentRFC2396(uriComponent))

encodePercent(v) == encodeURIComponentRFC3986(v)

-----------------------------------------------------------------------------
(* Percent-decoding, as URLSearchParams does it (src/src/oauth.js:583)     *)

HexValue(c) ==
    IF c \in DigitChars THEN CharCode[c] - 48
    ELSE IF c \in {"A", "B", "C", "D", "E", "F"} THEN CharCode[c] - 55
    ELSE IF c \in {"a", "b", "c", "d", "e", "f"} THEN CharCode[c] - 87
    ELSE -1

IsHex(c) == HexValue(c) >= 0

\* %XX with two hex digits, at place i of s.
EscapeAt(s, i) ==
    /\ i >= 1
    /\ i + 2 <= Len(s)
    /\ s[i] = "%"
    /\ IsHex(s[i + 1])
    /\ IsHex(s[i + 2])

\* The bytes of a percent-encoded string: %XX is one byte, anything else
\* stands for its own UTF-8 bytes.  (A hex digit is not "%", so no escape
\* starts inside another.)
PercentDecodeBytes(s) ==
    Flatten([i \in 1..Len(s) |->
        IF EscapeAt(s, i) THEN <<16 * HexValue(s[i + 1]) + HexValue(s[i + 2])>>
        ELSE IF EscapeAt(s, i - 1) \/ EscapeAt(s, i - 2) THEN <<>>
        ELSE Utf8[s[i]]])

\* UTF-8 decoding of the bytes the model's characters have; any other byte
\* decodes to the replacement character, written "?".
Utf8Decode(bs) ==
    Flatten([i \in 1..Len(bs) |->
        IF bs[i] = 195 /\ i < Len(bs) /\ bs[i + 1] = 169 THEN <<NonAscii>>
        ELSE IF bs[i] = 169 /\ i > 1 /\ bs[i - 1] = 195 THEN <<>>
        ELSE IF bs[i] \in 32..126 THEN <<FromCharCode(bs[i])>>
        ELSE <<"?">>])

percentDecode(s) == Utf8Decode(PercentDecodeBytes(s))

-----------------------------------------------------------------------------
(* The strings src/src/oauth.js names *)

K_oauth_callback ==
    <<"o", "a", "u", "t", "h", "_", "c", "a", "l", "l", "b", "a", "c",
      "k">>

K_oauth_consumer_key ==
    <<"o", "a", "u", "t", "h", "_", "c", "o", "n", "s", "u", "m", "e",
      "r", "_", "k", "e", "y">>

K_oauth_nonce ==
    <<"o", "a", "u", "t", "h", "_", "n", "o", "n", "c", "e">>

K_oauth_signature_method ==
    <<"o", "a", "u", "t", "h", "_", "s", "i", "g", "n", "a", "t", "u",
      "r", "e", "_", "m", "e", "t", "h", "o", "d">>

K_oauth_timestamp ==
    <<"o", "a", "u", "t", "h", "_", "t", "i", "m", "e", "s", "t", "a",
      "m", "p">>

K_oauth_token ==
    <<"o", "a", "u", "t", "h", "_", "t", "o", "k", "e", "n">>

K_oauth_token_secret ==
    <<"o", "a", "u", "t", "h", "_", "t", "o", "k", "e", "n", "_", "s",
      "e", "c", "r", "e", "t">>

K_oauth_verifier ==
    <<"o", "a", "u", "t", "h", "_", "v", "e", "r", "i", "f", "i", "e",
      "r">>

K_oauth_version ==
    <<"o", "a", "u", "t", "h", "_", "v", "e", "r", "s", "i", "o", "n">>

K_oauth_signature ==
    <<"o", "a", "u", "t", "h", "_", "s", "i", "g", "n", "a", "t", "u",
      "r", "e">>

K_oauth_callback_confirmed ==
    <<"o", "a", "u", "t", "h", "_", "c", "a", "l", "l", "b", "a", "c",
      "k", "_", "c", "o", "n", "f", "i", "r", "m", "e", "d">>

K_realm ==
    <<"r", "e", "a", "l", "m">>

type ==
    <<"O", "A", "u", "t", "h">>

signatureMethod ==
    <<"H", "M", "A", "C", "-", "S", "H", "A", "1">>

version ==
    <<"1", ".", "0">>

OOB ==
    <<"o", "o", "b">>

POST ==
    <<"P", "O", "S", "T">>

GET ==
    <<"G", "E", "T">>

FormURLEncoded ==
    <<"a", "p", "p", "l", "i", "c", "a", "t", "i", "o", "n", "/", "x",
      "-", "w", "w", "w", "-", "f", "o", "r", "m", "-", "u", "r", "l",
      "e", "n", "c", "o", "d", "e", "d">>

-----------------------------------------------------------------------------
(* src/src/oauth.js: the helpers before the class *)

\* A parameter list is a sequence of pairs <<key, value>>.
Pair(k, v) == <<k, v>>

\* What JavaScript takes for true in a condition, of a string, null or
\* undefined.
Truthy(v) == v # Null /\ v # Undefined /\ v # <<>>

\* A default parameter value: used when the argument is undefined.
Default(v, d) == IF v = Undefined THEN d ELSE v

\* A body value is undefined, a parameter list or a text.
NoBody == [kind |-> "undefined", list |-> <<>>, text |-> <<>>]

ParamsBody(list) == [kind |-> "params", list |-> list, text |-> <<>>]

TextBody(text) == [kind |-> "text", list |-> <<>>, text |-> text]

\* An array is true in a condition even when empty; a text when not empty.
TruthyBody(bodyValue) ==
    \/ bodyValue.kind = "params"
    \/ bodyValue.kind = "text" /\ bodyValue.text # <<>>

buildQuery(params) ==
    Join([i \in 1..Len(params) |->
            encodePercent(params[i][1]) \o <<"=">> \o encodePercent(params[i][2])],
         <<"&">>)

buildURL(requestURL, params, isPost) ==
    IF isPost \/ Len(params) = 0
    THEN requestURL
    ELSE requestURL \o <<"?">> \o buildQuery(params)

buildBody(bodyValue, isBodyTypeParams) ==
    IF isBodyTypeParams THEN buildQuery(bodyValue.list) ELSE bodyValue.text

-----------------------------------------------------------------------------
(* src/src/oauth.js: class OAuth, the private methods *)

\* The object's fields, as the methods read them through "this".
This ==
    [consumerKey |-> consumerKey, consumerSecret |-> consumerSecret,
     token |-> token, tokenSecret |-> tokenSecret]

\* The mutant: the secret is kept.
setToken_KeepsSecret(self, t, s) == [self EXCEPT !.token = Default(t, <<>>)]

\* setToken(token = '', tokenSecret = ''): the object after the call.
setToken(self, t, s) ==
    [self EXCEPT !.token = Default(t, <<>>), !.tokenSecret = Default(s, <<>>)]

\* The length of the nonce in bytes.
NonceBytes == 16

\* stringifyHex: two lower-case hex digits a byte.
stringifyHex(uint8array) ==
    Flatten([i \in 1..Len(uint8array) |->
        <<HexLowerDigits[(uint8array[i] \div 16) + 1],
          HexLowerDigits[(uint8array[i] % 16) + 1]>>])

\* #getNonce, given the bytes crypto.getRandomValues has filled in.
getNonce(randomValues) == stringifyHex(randomValues)

\* #getTimestamp, given the milliseconds Date.now() has returned.
getTimestamp(now) == now \div 1000

\* The mutant: pairs of equal key are not ordered by value.
compareFn_KeyOnly(a, b) ==
    IF StrLess(a[1], b[1]) THEN -1
    ELSE IF StrLess(b[1], a[1]) THEN 1
    ELSE 0

\* The comparison function given to sort().
compareFn(a, b) ==
    IF StrLess(a[1], b[1]) THEN -1
    ELSE IF StrLess(b[1], a[1]) THEN 1
    ELSE IF StrLess(a[2], b[2]) THEN -1
    ELSE IF StrLess(b[2], a[2]) THEN 1
    ELSE 0

\* Array.prototype.sort is stable: an element goes after those that do not
\* compare greater.
RECURSIVE InsertSorted(_, _)
InsertSorted(x, sorted) ==
    IF sorted = <<>> THEN <<x>>
    ELSE IF compareFn(Head(sorted), x) <= 0
    THEN <<Head(sorted)>> \o InsertSorted(x, Tail(sorted))
    ELSE <<x>> \o sorted

RECURSIVE SortFrom(_, _, _)
SortFrom(pairs, i, sorted) ==
    IF i > Len(pairs) THEN sorted
    ELSE SortFrom(pairs, i + 1, InsertSorted(pairs[i], sorted))

sort(pairs) == SortFrom(pairs, 1, <<>>)

\* .map(([key, value]) => [encodePercent(key), encodePercent(value)])
EncodedPairs(list) ==
    [i \in 1..Len(list) |-> Pair(encodePercent(list[i][1]), encodePercent(list[i][2]))]

\* .map(([key, value]) => `${key}=${value}`).join('&')
JoinPairs(pairs) ==
    Join([i \in 1..Len(pairs) |-> pairs[i][1] \o <<"=">> \o pairs[i][2]], <<"&">>)

\* The parameter string of #generateSignature.
paramsString(params, oAuthParams, bodyParams) ==
    JoinPairs(sort(EncodedPairs(params \o oAuthParams \o bodyParams)))

baseString(method, requestURL, pString) ==
    toUpperCase(method) \o <<"&">> \o encodePercent(requestURL)
        \o <<"&">> \o encodePercent(pString)

\* The mutant: no separator when there is no token secret.
keyString_NoSeparator(cSecret, tSecret) ==
    IF tSecret = <<>> THEN encodePercent(cSecret)
    ELSE encodePercent(cSecret) \o <<"&">> \o encodePercent(tSecret)

keyString(cSecret, tSecret) ==
    encodePercent(cSecret) \o <<"&">> \o encodePercent(tSecret)

\* src/src/encoding/uint8array.js, parse: the UTF-8 bytes of a string.
parseUint8Array(string) ==
    Flatten([i \in 1..Len(string) |-> Utf8[string[i]]])

\* The HMAC-SHA1 digest of data under key, as a term: equal digests have
\* equal data and key.
hmacSHA1(data, key) == [data |-> data, key |-> key]

\* The Base64 text of a digest, as a term.
encodeBase64(buffer) == [base64 |-> buffer]

NoSignature == encodeBase64(hmacSHA1(<<>>, <<>>))

\* The signature of a base string under a key string, with what it was
\* made from.
Signed(method, requestURL, params, oAuthParams, bodyParams, bs, ks) ==
    [method |-> method, requestURL |-> requestURL, params |-> params,
     oAuthParams |-> oAuthParams, bodyParams |-> bodyParams,
     baseString |-> bs, keyString |-> ks,
     signature |->
        encodeBase64(hmacSHA1(parseUint8Array(bs), parseUint8Array(ks)))]

\* #generateSignature: the signature, with the strings it was made from.
generateSignature(self, method, requestURL, params, oAuthParams, bodyParams) ==
    Signed(method, requestURL, params, oAuthParams, bodyParams,
           baseString(method, requestURL,
                      paramsString(params, oAuthParams, bodyParams)),
           keyString(self.consumerSecret, self.tokenSecret))

\* One credential of the Authorization header, key="value": the encoded key
\* and the encoded value.  The value of oauth_signature is the encoded
\* Base64 text of the digest, kept as the term in the field signature.
Credential(key, value) ==
    [key |-> encodePercent(key), value |-> encodePercent(value),
     signature |-> NoSignature]

SignatureCredential(key, signature) ==
    [key |-> encodePercent(key), value |-> <<>>, signature |-> signature]

\* [...oAuthParams, ['oauth_signature', signature]], each key="value".
Credentials(oAuthParams, sig) ==
    [signing |-> sig,
     credentials |->
        [i \in 1..Len(oAuthParams) |->
            Credential(oAuthParams[i][1], oAuthParams[i][2])]
        \o <<SignatureCredential(K_oauth_signature, sig.signature)>>]

\* The mutant: the signature is left out of the credentials.
getCredentials_NoSignature(self, method, requestURL, params, oAuthParams, bodyParams) ==
    LET sig == generateSignature(self, method, requestURL, params, oAuthParams,
                                 bodyParams)
    IN  [signing |-> sig,
         credentials |->
            [i \in 1..Len(oAuthParams) |->
                Credential(oAuthParams[i][1], oAuthParams[i][2])]]

\* #getCredentials: the credentials, in the order the header joins them
\* with ", ".
getCredentials(self, method, requestURL, params, oAuthParams, bodyParams) ==
    Credentials(oAuthParams,
                generateSignature(self, method, requestURL, params, oAuthParams,
                                  bodyParams))

\* #getAuthHeaderValue: the header is the type, a space and the credentials.
HeaderValue(c) ==
    [signing |-> c.signing, value |-> [type |-> type, credentials |-> c.credentials]]

getAuthHeaderValue(self, method, requestURL, params, oAuthParams, bodyParams) ==
    HeaderValue(getCredentials(self, method, requestURL, params, oAuthParams,
                               bodyParams))

\* The method of a Request: the standard methods are upper-cased.
NormalizeMethod(method) ==
    IF toUpperCase(method) \in
        {GET, POST, <<"P", "U", "T">>, <<"H", "E", "A", "D">>,
         <<"D", "E", "L", "E", "T", "E">>,
         <<"O", "P", "T", "I", "O", "N", "S">>}
    THEN toUpperCase(method)
    ELSE method

\* new Request(url, { method, headers, body }), with what was signed.
Request(url, method, authorization, contentType, body) ==
    [signing |-> authorization.signing,
     request |->
        [url |-> url, method |-> NormalizeMethod(method),
         Authorization |-> authorization.value,
         ContentType |-> contentType, body |-> body]]

\* #makeRequest: the Request, with what was signed.
makeRequest(self, requestURL, options) ==
    LET method == Default(options.method, GET)
        params == options.params
        oAuthParams == options.oAuthParams
        contentType == Default(options.contentType, FormURLEncoded)
        bodyValue == options.bodyValue
        isBodyTypeParams == FormURLEncoded = contentType
        isPost == POST = method /\ TruthyBody(bodyValue)
        url == buildURL(requestURL, params, isPost)
        bodyParams == IF isPost /\ isBodyTypeParams THEN bodyValue.list ELSE <<>>
        body == IF isPost THEN buildBody(bodyValue, isBodyTypeParams) ELSE Undefined
    IN  Request(url, method,
                getAuthHeaderValue(self, method, requestURL, params, oAuthParams,
                                   bodyParams),
                IF isPost THEN contentType ELSE Undefined, body)

-----------------------------------------------------------------------------
(* new URLSearchParams(text) and its get(), src/src/oauth.js:583-593 *)

\* String.prototype.split on a one-character separator.
Split(s, sep) ==
    LET IsSep(i) == s[i] = sep
        cuts == <<0>> \o SelectSeq([i \in 1..Len(s) |-> i], IsSep) \o <<Len(s) + 1>>
    IN  [k \in 1..(Len(cuts) - 1) |-> SubSeq(s, cuts[k] + 1, cuts[k + 1] - 1)]

IndexOf(s, c) ==
    IF \E i \in 1..Len(s) : s[i] = c
    THEN CHOOSE i \in 1..Len(s) : s[i] = c /\ \A j \in 1..(i - 1) : s[j] # c
    ELSE 0

NonEmpty(s) == s # <<>>

PlusToSpace(s) == [i \in 1..Len(s) |-> IF s[i] = "+" THEN " " ELSE s[i]]

\* One name=value piece of a form-urlencoded text: without "=" the value is
\* empty; "+" is a space; both sides are percent-decoded.
ParsePiece(piece) ==
    LET eq == IndexOf(piece, "=")
        name == IF eq = 0 THEN piece ELSE SubSeq(piece, 1, eq - 1)
        value == IF eq = 0 THEN <<>> ELSE SubSeq(piece, eq + 1, Len(piece))
    IN  Pair(percentDecode(PlusToSpace(name)), percentDecode(PlusToSpace(value)))

\* The list of pairs of new URLSearchParams(text): a leading "?" is dropped,
\* the text is cut at "&", empty pieces are skipped.
URLSearchParams(text) ==
    LET t == IF text # <<>> /\ text[1] = "?" THEN Tail(text) ELSE text
        pieces == SelectSeq(Split(t, "&"), NonEmpty)
    IN  [i \in 1..Len(pieces) |-> ParsePiece(pieces[i])]

\* URLSearchParams.prototype.get: the first value of the name, or null.
get(params, name) ==
    IF \E i \in 1..Len(params) : params[i][1] = name
    THEN params[CHOOSE i \in 1..Len(params) :
                    params[i][1] = name /\ \A j \in 1..(i - 1) : params[j][1] # name][2]
    ELSE Null

-----------------------------------------------------------------------------
(* src/src/oauth.js: class OAuth, the public methods *)

NoRequest ==
    [url |-> <<>>, method |-> <<>>,
     Authorization |-> [type |-> <<>>, credentials |-> <<>>],
     ContentType |-> Undefined, body |-> Undefined]

NoSigning ==
    [method |-> <<>>, requestURL |-> <<>>, params |-> <<>>, oAuthParams |-> <<>>,
     bodyParams |-> <<>>, baseString |-> <<>>, keyString |-> <<>>,
     signature |-> NoSignature]

\* What a call gives back: the object after it, and what it returned or
\* the message of the OAuthError it threw.
Returned(self, request, sig, params, url) ==
    [self |-> self, kind |-> "return", error |-> "", request |-> request,
     signing |-> sig, params |-> params, url |-> url]

\* throw new OAuthError(message)
Thrown(self, message) ==
    [self |-> self, kind |-> "throw", error |-> message, request |-> NoRequest,
     signing |-> NoSigning, params |-> <<>>, url |-> <<>>]

\* return request: the object after the call, with the Request made.
ReturnedRequest(self, made) ==
    Returned(self, made.request, made.signing, <<>>, <<>>)

\* The mutant: the token is not reset first.
makeRequestForRequestToken_NoReset(self, requestTokenURL, options, platform) ==
    LET oAuthParams ==
            <<Pair(K_oauth_callback, Default(options.callbackURL, OOB)),
              Pair(K_oauth_consumer_key, self.consumerKey),
              Pair(K_oauth_nonce, getNonce(platform.randomValues)),
              Pair(K_oauth_signature_method, signatureMethod),
              Pair(K_oauth_timestamp, ToDecimal(getTimestamp(platform.now))),
              Pair(K_oauth_version, version)>>
        made == makeRequest(self, requestTokenURL,
                    [method |-> Default(options.method, POST),
                     params |-> options.params, oAuthParams |-> oAuthParams,
                     contentType |-> options.contentType,
                     bodyValue |-> options.bodyValue])
    IN  Returned(self, made.request, made.signing, <<>>, <<>>)

\* What makeRequestForRequestToken calls #makeRequest with.  The timestamp
\* is a number, which the encoder turns into its decimal digits: the list
\* holds the digits.
RequestTokenCall(self, options, platform) ==
    [method |-> Default(options.method, POST), params |-> options.params,
     oAuthParams |->
        <<Pair(K_oauth_callback, Default(options.callbackURL, OOB)),
          Pair(K_oauth_consumer_key, self.consumerKey),
          Pair(K_oauth_nonce, getNonce(platform.randomValues)),
          Pair(K_oauth_signature_method, signatureMethod),
          Pair(K_oauth_timestamp, ToDecimal(getTimestamp(platform.now))),
          Pair(K_oauth_version, version)>>,
     contentType |-> options.contentType, bodyValue |-> options.bodyValue]

\* The rest of makeRequestForRequestToken, once this.setToken() has given
\* the object self.
RequestTokenRequest(self, requestTokenURL, options, platform) ==
    ReturnedRequest(self,
        makeRequest(self, requestTokenURL,
                    RequestTokenCall(self, options, platform)))

makeRequestForRequestToken(self, requestTokenURL, options, platform) ==
    RequestTokenRequest(setToken(self, Undefined, Undefined), requestTokenURL,
                        options, platform)

\* The mutant: the response's status is not looked at.
getRequestTokenParamsFrom_IgnoresStatus(self, response) ==
    LET params == URLSearchParams(response.text)
    IN  IF ~Truthy(get(params, K_oauth_callback_confirmed))
        THEN Thrown(self, "Unconfirmed callback")
        ELSE Returned(setToken(self, get(params, K_oauth_token),
                               get(params, K_oauth_token_secret)),
                      NoRequest, NoSigning, params, <<>>)

\* The mutant: the token is set before the callback is checked.
getRequestTokenParamsFrom_SetsFirst(self, response) ==
    IF ~response.ok
    THEN Thrown(self, "Failed to get request token")
    ELSE LET params == URLSearchParams(response.text)
             self1 == setToken(self, get(params, K_oauth_token),
                               get(params, K_oauth_token_secret))
         IN  IF ~Truthy(get(params, K_oauth_callback_confirmed))
             THEN Thrown(self1, "Unconfirmed callback")
             ELSE Returned(self1, NoRequest, NoSigning, params, <<>>)

\* this.setToken(params.get('oauth_token'), params.get('oauth_token_secret'));
\* return params
SetTokenFrom(self, params) ==
    Returned(setToken(self, get(params, K_oauth_token),
                      get(params, K_oauth_token_secret)),
             NoRequest, NoSigning, params, <<>>)

\* getRequestTokenParamsFrom, once the text is parsed.
ConfirmedParams(self, params) ==
    IF ~Truthy(get(params, K_oauth_callback_confirmed))
    THEN Thrown(self, "Unconfirmed callback")
    ELSE SetTokenFrom(self, params)

getRequestTokenParamsFrom(self, response) ==
    IF ~response.ok
    THEN Thrown(self, "Failed to get request token")
    ELSE ConfirmedParams(self, URLSearchParams(response.text))

generateAuthURL(self, authURL, options) ==
    LET list == <<Pair(K_oauth_token, self.token)>> \o options.params
        query == Join([i \in 1..Len(list) |->
                        encodePercent(list[i][1]) \o <<"=">>
                            \o encodePercent(list[i][2])],
                      <<"&">>)
    IN  Returned(self, NoRequest, NoSigning, <<>>, authURL \o <<"?">> \o query)

\* The mutant: the token is reset once the request is made.
makeRequestForAccessToken_Resets(self, accessTokenURL, verifier, options, platform) ==
    LET oAuthParams ==
            <<Pair(K_oauth_consumer_key, self.consumerKey),
              Pair(K_oauth_nonce, getNonce(platform.randomValues)),
              Pair(K_oauth_signature_method, signatureMethod),
              Pair(K_oauth_timestamp, ToDecimal(getTimestamp(platform.now))),
              Pair(K_oauth_token, self.token),
              Pair(K_oauth_verifier, verifier),
              Pair(K_oauth_version, version)>>
        made == makeRequest(self, accessTokenURL,
                    [method |-> Default(options.method, POST), params |-> <<>>,
                     oAuthParams |-> oAuthParams, contentType |-> Undefined,
                     bodyValue |-> NoBody])
    IN  Returned(setToken(self, Undefined, Undefined), made.request,
                 made.signing, <<>>, <<>>)

\* What makeRequestForAccessToken calls #makeRequest with: the method and
\* the OAuth parameters only, so the other options take their defaults.
AccessTokenCall(self, verifier, options, platform) ==
    [method |-> Default(options.method, POST), params |-> <<>>,
     oAuthParams |->
        <<Pair(K_oauth_consumer_key, self.consumerKey),
          Pair(K_oauth_nonce, getNonce(platform.randomValues)),
          Pair(K_oauth_signature_method, signatureMethod),
          Pair(K_oauth_timestamp, ToDecimal(getTimestamp(platform.now))),
          Pair(K_oauth_token, self.token),
          Pair(K_oauth_verifier, verifier),
          Pair(K_oauth_version, version)>>,
     contentType |-> Undefined, bodyValue |-> NoBody]

makeRequestForAccessToken(self, accessTokenURL, verifier, options, platform) ==
    ReturnedRequest(self,
        makeRequest(self, accessTokenURL,
                    AccessTokenCall(self, verifier, options, platform)))

getAccessTokenParamsFrom(self, response) ==
    IF ~response.ok
    THEN Thrown(self, "Failed to get access token")
    ELSE SetTokenFrom(self, URLSearchParams(response.text))

\* What makeRequestForResource calls #makeRequest with.
ResourceCall(self, options, platform) ==
    [method |-> Default(options.method, GET), params |-> options.params,
     oAuthParams |->
        <<Pair(K_oauth_consumer_key, self.consumerKey),
          Pair(K_oauth_nonce, getNonce(platform.randomValues)),
          Pair(K_oauth_signature_method, signatureMethod),
          Pair(K_oauth_timestamp, ToDecimal(getTimestamp(platform.now))),
          Pair(K_oauth_token, self.token),
          Pair(K_oauth_version, version)>>,
     contentType |-> options.contentType, bodyValue |-> options.bodyValue]

makeRequestForResource(self, resourceURL, options, platform) ==
    ReturnedRequest(self,
        makeRequest(self, resourceURL, ResourceCall(self, options, platform)))

-----------------------------------------------------------------------------
(* The callers' inputs *)

SECRET == <<"S", "E", "C", "R", "E", "T">>

ConsumerKeys == {<<"c", "k">>}

ConsumerSecrets == {SECRET, <<"s", "&">>}

\* The arguments of setToken: a string, or left out.
TokenArgs == {Undefined, <<"t", "k">>}

SecretArgs == {Undefined, <<"&", "s">>}

URLs == {<<"h", ":", "/", "r">>}

Params1 == <<Pair(<<"b">>, <<"2">>), Pair(<<"a">>, <<"1", " ">>)>>

FormBody == ParamsBody(<<Pair(<<"c">>, <<"*">>)>>)

TextPlain == <<"t", "e", "x", "t", "/", "p", "l", "a", "i", "n">>

\* The options of makeRequestForRequestToken: each left out (undefined, or
\* the empty list for params) or given.
RequestTokenOptions ==
    {[method |-> Undefined, params |-> <<>>, contentType |-> Undefined,
      bodyValue |-> NoBody, callbackURL |-> Undefined],
     [method |-> GET, params |-> Params1, contentType |-> Undefined,
      bodyValue |-> NoBody, callbackURL |-> <<"h", ":", "/", "c", "b">>],
     [method |-> POST, params |-> Params1, contentType |-> FormURLEncoded,
      bodyValue |-> FormBody, callbackURL |-> Undefined]}

\* The options of makeRequestForResource.
ResourceOptions ==
    {[method |-> Undefined, params |-> Params1, contentType |-> Undefined,
      bodyValue |-> NoBody],
     [method |-> POST, params |-> <<>>, contentType |-> Undefined,
      bodyValue |-> FormBody],
     [method |-> POST, params |-> Params1, contentType |-> Undefined,
      bodyValue |-> FormBody],
     [method |-> POST, params |-> Params1, contentType |-> TextPlain,
      bodyValue |-> TextBody(<<"x", "=", "1">>)],
     [method |-> <<"p", "o", "s", "t">>, params |-> Params1,
      contentType |-> FormURLEncoded, bodyValue |-> FormBody]}

\* The options of makeRequestForAccessToken.
AccessTokenOptions == {[method |-> Undefined], [method |-> GET]}

Verifiers == {<<"9", "1">>}

\* What the platform gives one call: the random bytes of the nonce and
\* the clock's milliseconds.
Platforms ==
    {[randomValues |-> [i \in 1..NonceBytes |-> 0], now |-> 7999],
     [randomValues |-> [i \in 1..NonceBytes |-> 171], now |-> 2147483647]}

Confirmed ==
    K_oauth_callback_confirmed \o <<"=", "t", "r", "u", "e">>

\* The texts of the responses.
ResponseTexts ==
    {K_oauth_token \o <<"=", "T", "&">> \o K_oauth_token_secret \o <<"=", "S", "&">>
        \o Confirmed,
     K_oauth_token \o <<"=", "T", "&">> \o K_oauth_token_secret \o <<"=", "S">>,
     Confirmed,
     K_oauth_token \o <<"=", "U", "%", "2", "6", "&">> \o K_oauth_token_secret
        \o <<"=", "&">> \o K_oauth_callback_confirmed \o <<"=">>}

Responses == [ok : BOOLEAN, text : ResponseTexts]

AuthParamsArgs == {<<Pair(<<"x">>, <<"(", ")">>)>>}

-----------------------------------------------------------------------------
(* The state machine: one action a public method, the whole call *)

NoCall == [op |-> "none", args |-> <<>>]

NoOutcome ==
    [kind |-> "none", error |-> "", request |-> NoRequest, params |-> <<>>,
     url |-> <<>>]

\* The pair of the field initialisers.
EmptyPair == [token |-> <<>>, tokenSecret |-> <<>>]

NoAuthLog ==
    [valid |-> FALSE, authURL |-> <<>>, params |-> <<>>, url |-> <<>>,
     reset |-> FALSE]

IdleEnc == [pc |-> "idle", input |-> <<>>, encoded |-> <<>>, decoded |-> <<>>]

IdleCanon ==
    [pc |-> "idle", params |-> <<>>, oAuthParams |-> <<>>, bodyParams |-> <<>>,
     first |-> <<>>, string |-> <<>>]

Init ==
    /\ consumerKey \in ConsumerKeys
    /\ consumerSecret \in ConsumerSecrets
    /\ token = <<>>
    /\ tokenSecret = <<>>
    /\ call = NoCall
    /\ outcome = NoOutcome
    /\ signing = NoSigning
    /\ written = [token |-> <<>>, tokenSecret |-> <<>>]
    /\ authLog = NoAuthLog
    /\ suspended = {}
    /\ writtenPairs = {EmptyPair}
    /\ encCase = IdleEnc
    /\ canonCase = IdleCanon

\* The state after a call that gave r.
Done(op, args, r) ==
    /\ token' = r.self.token
    /\ tokenSecret' = r.self.tokenSecret
    /\ consumerKey' = r.self.consumerKey
    /\ consumerSecret' = r.self.consumerSecret
    /\ call' = [op |-> op, args |-> args]
    /\ outcome' = [kind |-> r.kind, error |-> r.error, request |-> r.request,
                   params |-> r.params, url |-> r.url]
    /\ signing' = r.signing
    /\ UNCHANGED <<encCase, canonCase>>

SetToken(t, s) ==
    LET self1 == setToken(This, t, s)
    IN  /\ Done("setToken", [token |-> t, tokenSecret |-> s],
                Returned(self1, NoRequest, NoSigning, <<>>, <<>>))
        /\ written' = [token |-> Default(t, <<>>), tokenSecret |-> Default(s, <<>>)]
        /\ authLog' = NoAuthLog
        /\ UNCHANGED asyncVars

MakeRequestForRequestToken(requestTokenURL, options, platform) ==
    /\ Done("makeRequestForRequestToken",
            [url |-> requestTokenURL, options |-> options],
            makeRequestForRequestToken(This, requestTokenURL, options, platform))
    /\ written' = [token |-> <<>>, tokenSecret |-> <<>>]
    /\ authLog' = IF authLog.valid THEN [authLog EXCEPT !.reset = TRUE] ELSE authLog
    /\ UNCHANGED asyncVars

\* The state after a token exchange that gave r on a body that parses to
\* params.
Exchanged(op, response, r, params) ==
    /\ Done(op, [response |-> response], r)
    /\ written' =
        IF r.kind = "return"
        THEN [token |-> get(params, K_oauth_token),
              tokenSecret |-> get(params, K_oauth_token_secret)]
        ELSE written
    /\ authLog' = IF r.kind = "return" THEN NoAuthLog ELSE authLog
    /\ UNCHANGED asyncVars

GetRequestTokenParamsFrom(response) ==
    Exchanged("getRequestTokenParamsFrom", response,
              getRequestTokenParamsFrom(This, response),
              URLSearchParams(response.text))

\* The state after a generateAuthURL call that gave r.
Generated(authURL, options, r) ==
    /\ Done("generateAuthURL", [url |-> authURL, options |-> options], r)
    /\ authLog' = [valid |-> TRUE, authURL |-> authURL,
                   params |-> options.params, url |-> r.url, reset |-> FALSE]
    /\ UNCHANGED <<written, asyncVars>>

GenerateAuthURL(authURL, options) ==
    Generated(authURL, options, generateAuthURL(This, authURL, options))

MakeRequestForAccessToken(accessTokenURL, verifier, options, platform) ==
    /\ Done("makeRequestForAccessToken",
            [url |-> accessTokenURL, verifier |-> verifier, options |-> options],
            makeRequestForAccessToken(This, accessTokenURL, verifier, options,
                                      platform))
    /\ UNCHANGED <<written, authLog, asyncVars>>

GetAccessTokenParamsFrom(response) ==
    Exchanged("getAccessTokenParamsFrom", response,
              getAccessTokenParamsFrom(This, response),
              URLSearchParams(response.text))

MakeRequestForResource(resourceURL, options, platform) ==
    /\ Done("makeRequestForResource", [url |-> resourceURL, options |-> options],
            makeRequestForResource(This, resourceURL, options, platform))
    /\ UNCHANGED <<written, authLog, asyncVars>>

Next ==
    \/ \E t \in TokenArgs, s \in SecretArgs : SetToken(t, s)
    \/ \E u \in URLs, o \in RequestTokenOptions, pf \in Platforms :
            MakeRequestForRequestToken(u, o, pf)
    \/ \E r \in Responses : GetRequestTokenParamsFrom(r)
    \/ \E u \in URLs, p \in AuthParamsArgs : GenerateAuthURL(u, [params |-> p])
    \/ \E u \in URLs, v \in Verifiers, o \in AccessTokenOptions, pf \in Platforms :
            MakeRequestForAccessToken(u, v, o, pf)
    \/ \E r \in Responses : GetAccessTokenParamsFrom(r)
    \/ \E u \in URLs, o \in ResourceOptions, pf \in Platforms :
            MakeRequestForResource(u, o, pf)

Spec == Init /\ [][Next]_vars

-----------------------------------------------------------------------------
(* The percent-encoder alone: an input is drawn, encoded, and decoded *)

\* The longest input of the encoder's runs.
MaxEncLen == 2

\* The characters of the inputs: unreserved ones, the five the encoder
\* replaces, other ASCII ones, and one outside ASCII.
EncChars ==
    {"a", "Z", "0", "-", "_", ".", "~", "!", "'", "(", ")", "*", " ", "&",
     "=", "%", "+", "/", NonAscii}

EncInputs == UNION {[1..n -> EncChars] : n \in 0..MaxEncLen}

ClientAtRest ==
    /\ consumerKey \in ConsumerKeys
    /\ consumerSecret = SECRET
    /\ token = <<>>
    /\ tokenSecret = <<>>
    /\ call = NoCall
    /\ outcome = NoOutcome
    /\ signing = NoSigning
    /\ written = [token |-> <<>>, tokenSecret |-> <<>>]
    /\ authLog = NoAuthLog
    /\ suspended = {}
    /\ writtenPairs = {EmptyPair}

InitEncode ==
    /\ ClientAtRest
    /\ encCase \in {[pc |-> "input", input |-> s, encoded |-> <<>>,
                     decoded |-> <<>>] : s \in EncInputs}
    /\ canonCase = IdleCanon

Encode ==
    /\ encCase.pc = "input"
    /\ encCase' = [encCase EXCEPT !.pc = "encoded",
                                  !.encoded = encodePercent(encCase.input)]
    /\ UNCHANGED <<clientVars, canonCase>>

Decode ==
    /\ encCase.pc = "encoded"
    /\ encCase' = [encCase EXCEPT !.pc = "decoded",
                                  !.decoded = percentDecode(encCase.encoded)]
    /\ UNCHANGED <<clientVars, canonCase>>

NextEncode == Encode \/ Decode

SpecEncode == InitEncode /\ [][NextEncode]_vars

-----------------------------------------------------------------------------
(* The canonicaliser alone: three lists are drawn, the parameter string is *)
(* built, and the pairs are moved about within and across the lists        *)

\* The most pairs the three lists hold together.
MaxPairs == 3

CanonKeys == {<<"a">>, <<"*">>, <<"+">>}

CanonValues == {<<"1">>, <<"{">>}

CanonPairs == {Pair(k, v) : k \in CanonKeys, v \in CanonValues}

CanonLists == UNION {[1..n -> CanonPairs] : n \in 0..MaxPairs}

\* The list all cut into three at a and b.
CutAt(all, a, b) ==
    [params |-> SubSeq(all, 1, a), oAuthParams |-> SubSeq(all, a + 1, b),
     bodyParams |-> SubSeq(all, b + 1, Len(all))]

\* The inputs: every list of at most MaxPairs pairs, cut in every way.
CanonInputs ==
    UNION {{[pc |-> "input", params |-> CutAt(all, ab[1], ab[2]).params,
             oAuthParams |-> CutAt(all, ab[1], ab[2]).oAuthParams,
             bodyParams |-> CutAt(all, ab[1], ab[2]).bodyParams,
             first |-> <<>>, string |-> <<>>] :
                ab \in {x \in (0..Len(all)) \X (0..Len(all)) : x[1] <= x[2]}} :
           all \in CanonLists}

InitCanon ==
    /\ ClientAtRest
    /\ encCase = IdleEnc
    /\ canonCase \in CanonInputs

CanonString(c) == paramsString(c.params, c.oAuthParams, c.bodyParams)

Canonicalize ==
    /\ canonCase.pc = "input"
    /\ canonCase' = [canonCase EXCEPT !.pc = "done",
                                      !.first = CanonString(canonCase),
                                      !.string = CanonString(canonCase)]
    /\ UNCHANGED <<clientVars, encCase>>

\* The lists after a rearrangement, canonicalised again.
Rearranged(all, a, b) ==
    LET c == CutAt(all, a, b)
    IN  [canonCase EXCEPT !.pc = "rearranged", !.params = c.params,
                          !.oAuthParams = c.oAuthParams,
                          !.bodyParams = c.bodyParams,
                          !.string = CanonString(c)]

\* Two neighbouring pairs of the three lists, taken as one, change places.
SwapPairs(i) ==
    LET all == canonCase.params \o canonCase.oAuthParams \o canonCase.bodyParams
        swapped == [j \in 1..Len(all) |->
                        IF j = i THEN all[i + 1]
                        ELSE IF j = i + 1 THEN all[i]
                        ELSE all[j]]
        a == Len(canonCase.params)
    IN  /\ canonCase.pc \in {"done", "rearranged"}
        /\ i + 1 <= Len(all)
        /\ canonCase' = Rearranged(swapped, a, a + Len(canonCase.oAuthParams))
        /\ UNCHANGED <<clientVars, encCase>>

\* The same pairs in the same order, with one pair moved to the list
\* beside its own: one of the two cuts moves by one place.
MoveCuts(a, b) ==
    LET all == canonCase.params \o canonCase.oAuthParams \o canonCase.bodyParams
        a0 == Len(canonCase.params)
        b0 == a0 + Len(canonCase.oAuthParams)
    IN  /\ canonCase.pc \in {"done", "rearranged"}
        /\ a <= b
        /\ b <= Len(all)
        /\ \/ a = a0 /\ b \in {b0 - 1, b0 + 1}
           \/ b = b0 /\ a \in {a0 - 1, a0 + 1}
        /\ canonCase' = Rearranged(all, a, b)
        /\ UNCHANGED <<clientVars, encCase>>

NextCanon ==
    \/ Canonicalize
    \/ \E i \in 1..MaxPairs : SwapPairs(i)
    \/ \E a \in 0..MaxPairs, b \in 0..MaxPairs : MoveCuts(a, b)

SpecCanon == InitCanon /\ [][NextCanon]_vars

-----------------------------------------------------------------------------
(* The calls as the event loop runs them: a call runs to its first await   *)
(* that waits for the platform (hmacSHA1 in #generateSignature, line 432;  *)
(* response.text() in the token exchanges, lines 582 and 671), other calls *)
(* run while it waits, and it resumes in one piece.  setToken has no       *)
(* await.                                                                  *)

\* The most calls that wait at one time.
MaxSuspended == 2

\* The locals of #makeRequest and #generateSignature when the call reaches
\* `await hmacSHA1(data, key)`: all that is computed before it.
AtHmac(self, requestURL, options) ==
    LET method == Default(options.method, GET)
        params == options.params
        oAuthParams == options.oAuthParams
        contentType == Default(options.contentType, FormURLEncoded)
        bodyValue == options.bodyValue
        isBodyTypeParams == FormURLEncoded = contentType
        isPost == POST = method /\ TruthyBody(bodyValue)
        bodyParams == IF isPost /\ isBodyTypeParams THEN bodyValue.list ELSE <<>>
    IN  [requestURL |-> requestURL, method |-> method, params |-> params,
         oAuthParams |-> oAuthParams, contentType |-> contentType,
         bodyValue |-> bodyValue, isBodyTypeParams |-> isBodyTypeParams,
         isPost |-> isPost, url |-> buildURL(requestURL, params, isPost),
         bodyParams |-> bodyParams,
         baseString |->
            baseString(method, requestURL,
                       paramsString(params, oAuthParams, bodyParams)),
         keyString |-> keyString(self.consumerSecret, self.tokenSecret)]

\* The locals of a call that waits for response.text(): none of these.
NoLocals ==
    [requestURL |-> <<>>, method |-> <<>>, params |-> <<>>, oAuthParams |-> <<>>,
     contentType |-> <<>>, bodyValue |-> NoBody, isBodyTypeParams |-> FALSE,
     isPost |-> FALSE, url |-> <<>>, bodyParams |-> <<>>, baseString |-> <<>>,
     keyString |-> <<>>]

\* The mutant: the key string is made when the call resumes, from the
\* token secret the object then has.
AfterHmac_ReadsSecret(self, l) ==
    Request(l.url, l.method,
            HeaderValue(Credentials(l.oAuthParams,
                Signed(l.method, l.requestURL, l.params, l.oAuthParams,
                       l.bodyParams, l.baseString,
                       keyString(self.consumerSecret, self.tokenSecret)))),
            IF l.isPost THEN l.contentType ELSE Undefined,
            IF l.isPost THEN buildBody(l.bodyValue, l.isBodyTypeParams)
            ELSE Undefined)

\* The rest of #generateSignature, #getCredentials, #getAuthHeaderValue and
\* #makeRequest once hmacSHA1 has given the digest.  self is the object as
\* it is when the call resumes: the code does not read it any more.
AfterHmac(self, l) ==
    Request(l.url, l.method,
            HeaderValue(Credentials(l.oAuthParams,
                Signed(l.method, l.requestURL, l.params, l.oAuthParams,
                       l.bodyParams, l.baseString, l.keyString))),
            IF l.isPost THEN l.contentType ELSE Undefined,
            IF l.isPost THEN buildBody(l.bodyValue, l.isBodyTypeParams)
            ELSE Undefined)

\* A call that waits: its name and arguments, the await it waits at, its
\* locals, and (history) the pair the object held when it was called.
Waiting(op, args, at, locals, pair) ==
    [op |-> op, args |-> args, await |-> at, locals |-> locals, pair |-> pair]

\* The pair the object holds.
PairOf(self) == [token |-> self.token, tokenSecret |-> self.tokenSecret]

\* The callers' inputs of this specification.
AsyncInputs ==
    [tokens |-> {<<"t", "k">>},
     secrets |-> {<<"&", "s">>},
     requestTokenOptions |->
        {[method |-> Undefined, params |-> <<>>, contentType |-> Undefined,
          bodyValue |-> NoBody, callbackURL |-> Undefined]},
     accessTokenOptions |-> {[method |-> Undefined]},
     resourceOptions |->
        {[method |-> Undefined, params |-> Params1, contentType |-> Undefined,
          bodyValue |-> NoBody]},
     platforms |->
        {[randomValues |-> [i \in 1..NonceBytes |-> 171], now |-> 7999]},
     responses |->
        [ok : BOOLEAN,
         text : {K_oauth_token \o <<"=", "T", "&">> \o K_oauth_token_secret
                    \o <<"=", "S", "&">> \o Confirmed}]]

InitAsync ==
    /\ ClientAtRest
    /\ encCase = IdleEnc
    /\ canonCase = IdleCanon

\* setToken runs in one piece.
AsyncSetToken(t, s) ==
    /\ Done("setToken", [token |-> t, tokenSecret |-> s],
            Returned(setToken(This, t, s), NoRequest, NoSigning, <<>>, <<>>))
    /\ written' = [token |-> Default(t, <<>>), tokenSecret |-> Default(s, <<>>)]
    /\ writtenPairs' =
        writtenPairs
            \cup {[token |-> Default(t, <<>>), tokenSecret |-> Default(s, <<>>)]}
    /\ authLog' = NoAuthLog
    /\ UNCHANGED suspended

\* The object is left as self and the call waits.
Suspend(self, waiting) ==
    /\ Cardinality(suspended) < MaxSuspended
    /\ suspended' = suspended \cup {waiting}
    /\ token' = self.token
    /\ tokenSecret' = self.tokenSecret
    /\ UNCHANGED <<consumerKey, consumerSecret, call, outcome, signing, authLog,
                   encCase, canonCase>>

\* makeRequestForRequestToken up to its await: this.setToken(), the OAuth
\* parameters, the base string and the key string.
SuspendRequestToken(self, requestTokenURL, options, platform) ==
    Suspend(self,
            Waiting("makeRequestForRequestToken",
                    [url |-> requestTokenURL, options |-> options],
                    "hmacSHA1",
                    AtHmac(self, requestTokenURL,
                           RequestTokenCall(self, options, platform)),
                    PairOf(self)))

CallRequestToken(requestTokenURL, options, platform) ==
    /\ SuspendRequestToken(setToken(This, Undefined, Undefined),
                           requestTokenURL, options, platform)
    /\ written' = EmptyPair
    /\ writtenPairs' = writtenPairs \cup {EmptyPair}

\* makeRequestForAccessToken up to its await.
CallAccessToken(accessTokenURL, verifier, options, platform) ==
    /\ Suspend(This,
               Waiting("makeRequestForAccessToken",
                       [url |-> accessTokenURL, verifier |-> verifier,
                        options |-> options],
                       "hmacSHA1",
                       AtHmac(This, accessTokenURL,
                              AccessTokenCall(This, verifier, options, platform)),
                       PairOf(This)))
    /\ UNCHANGED <<written, writtenPairs>>

\* makeRequestForResource up to its await.
CallResource(resourceURL, options, platform) ==
    /\ Suspend(This,
               Waiting("makeRequestForResource",
                       [url |-> resourceURL, options |-> options],
                       "hmacSHA1",
                       AtHmac(This, resourceURL,
                              ResourceCall(This, options, platform)),
                       PairOf(This)))
    /\ UNCHANGED <<written, writtenPairs>>

\* A signed request resumes after hmacSHA1 and returns.
ResumeRequest(c) ==
    /\ c.await = "hmacSHA1"
    /\ Done(c.op, c.args, ReturnedRequest(This, AfterHmac(This, c.locals)))
    /\ suspended' = suspended \ {c}
    /\ UNCHANGED <<written, writtenPairs, authLog>>

\* The token exchange of the name op.
ExchangeResult(op, self, response) ==
    IF op = "getRequestTokenParamsFrom"
    THEN getRequestTokenParamsFrom(self, response)
    ELSE getAccessTokenParamsFrom(self, response)

\* A token exchange up to its await: a response that is not ok throws at
\* once, any other waits for response.text().
CallExchange(op, response) ==
    \/ /\ ~response.ok
       /\ Done(op, [response |-> response], ExchangeResult(op, This, response))
       /\ UNCHANGED <<written, writtenPairs, authLog, suspended>>
    \/ /\ response.ok
       /\ Suspend(This,
                  Waiting(op, [response |-> response], "response.text", NoLocals,
                          PairOf(This)))
       /\ UNCHANGED <<written, writtenPairs>>

\* The state after the token exchange c has resumed and given r on a body
\* that parses to params.
ExchangeResumed(c, r, params) ==
    /\ Done(c.op, c.args, r)
    /\ written' =
        IF r.kind = "return"
        THEN [token |-> get(params, K_oauth_token),
              tokenSecret |-> get(params, K_oauth_token_secret)]
        ELSE written
    /\ writtenPairs' =
        IF r.kind = "return"
        THEN writtenPairs
                \cup {[token |-> get(params, K_oauth_token),
                       tokenSecret |-> get(params, K_oauth_token_secret)]}
        ELSE writtenPairs
    /\ authLog' = IF r.kind = "return" THEN NoAuthLog ELSE authLog
    /\ suspended' = suspended \ {c}

\* A token exchange resumes with the text, and sets the token or throws.
ResumeExchange(c) ==
    /\ c.await = "response.text"
    /\ ExchangeResumed(c, ExchangeResult(c.op, This, c.args.response),
                       URLSearchParams(c.args.response.text))

NextAsync ==
    \/ \E t \in AsyncInputs.tokens, s \in AsyncInputs.secrets : AsyncSetToken(t, s)
    \/ \E u \in URLs, o \in AsyncInputs.requestTokenOptions, pf \in AsyncInputs.platforms :
            CallRequestToken(u, o, pf)
    \/ \E u \in URLs, v \in Verifiers, o \in AsyncInputs.accessTokenOptions,
          pf \in AsyncInputs.platforms :
            CallAccessToken(u, v, o, pf)
    \/ \E u \in URLs, o \in AsyncInputs.resourceOptions, pf \in AsyncInputs.platforms :
            CallResource(u, o, pf)
    \/ \E r \in AsyncInputs.responses : CallExchange("getRequestTokenParamsFrom", r)
    \/ \E r \in AsyncInputs.responses : CallExchange("getAccessTokenParamsFrom", r)
    \/ \E c \in suspended : ResumeRequest(c)
    \/ \E c \in suspended : ResumeExchange(c)

SpecAsync == InitAsync /\ [][NextAsync]_vars

-----------------------------------------------------------------------------
(* Properties: the words they are stated in *)

TokenExchanges == {"getRequestTokenParamsFrom", "getAccessTokenParamsFrom"}

SignedRequests ==
    {"makeRequestForRequestToken", "makeRequestForAccessToken",
     "makeRequestForResource"}

RequestBuilders == SignedRequests \cup {"generateAuthURL"}

\* How often the character c is in the string s.
Count(s, c) == Cardinality({i \in 1..Len(s) : s[i] = c})

HasKey(list, key) == \E i \in 1..Len(list) : list[i][1] = key

\* The client holds no token: the state the specification calls Unauthorized.
Unauthorized == token = <<>> /\ tokenSecret = <<>>

\* The text holds no oauth_callback_confirmed.
LacksConfirmed(text) ==
    ~HasKey(URLSearchParams(text), K_oauth_callback_confirmed)

\* The key=value pieces of a query string or a form body, as pairs of the
\* encoded key and the encoded value.
EncodedPairsOf(text) ==
    IF text = <<>> THEN <<>>
    ELSE LET pieces == Split(text, "&")
         IN  [i \in 1..Len(pieces) |->
                Pair(SubSeq(pieces[i], 1, IndexOf(pieces[i], "=") - 1),
                     SubSeq(pieces[i], IndexOf(pieces[i], "=") + 1,
                            Len(pieces[i])))]

\* What follows the "?" of a URL.
QueryOf(url) ==
    IF IndexOf(url, "?") = 0 THEN <<>>
    ELSE SubSeq(url, IndexOf(url, "?") + 1, Len(url))

\* Neither pair is before the other in the order of key, then value.
PairLessEq(p, q) ==
    \/ StrLess(p[1], q[1])
    \/ p[1] = q[1] /\ (StrLess(p[2], q[2]) \/ p[2] = q[2])

\* The two lists hold the same pairs as often.
SamePairs(xs, ys) ==
    /\ Len(xs) = Len(ys)
    /\ \A i \in 1..Len(xs) :
        Cardinality({j \in 1..Len(xs) : xs[j] = xs[i]})
            = Cardinality({j \in 1..Len(ys) : ys[j] = xs[i]})

-----------------------------------------------------------------------------
(* C1 *)

\* C1: a call of getRequestTokenParamsFrom or getAccessTokenParamsFrom with
\* a response that is not ok throws the OAuthError 'Failed to get request
\* token' or 'Failed to get access token', and the token and the token
\* secret are after the call what they were before it, in every state.
C1_FailedResponseThrows ==
    [][(call'.op \in TokenExchanges /\ ~call'.args.response.ok)
        => /\ outcome'.kind = "throw"
           /\ outcome'.error =
                IF call'.op = "getRequestTokenParamsFrom"
                THEN "Failed to get request token"
                ELSE "Failed to get access token"
           /\ token' = token
           /\ tokenSecret' = tokenSecret]_vars

\* A held token has outlived a failed access-token response.
C1_Witness ==
    /\ call.op = "getAccessTokenParamsFrom"
    /\ ~call.args.response.ok
    /\ outcome.error = "Failed to get access token"
    /\ token = <<"t", "k">>
    /\ tokenSecret = <<"&", "s">>

-----------------------------------------------------------------------------
(* C2 *)

\* C2: on an ok response whose body has no oauth_callback_confirmed,
\* getRequestTokenParamsFrom throws the OAuthError 'Unconfirmed callback'
\* and leaves the token and the token secret as they were, while
\* getAccessTokenParamsFrom returns and sets them from the same body.
C2_UnconfirmedCallback ==
    [][(call'.op \in TokenExchanges /\ call'.args.response.ok
            /\ LacksConfirmed(call'.args.response.text))
        => IF call'.op = "getRequestTokenParamsFrom"
           THEN /\ outcome'.kind = "throw"
                /\ outcome'.error = "Unconfirmed callback"
                /\ token' = token
                /\ tokenSecret' = tokenSecret
           ELSE /\ outcome'.kind = "return"
                /\ token' = get(outcome'.params, K_oauth_token)
                /\ tokenSecret' = get(outcome'.params, K_oauth_token_secret)]_vars

\* The body oauth_token=T&oauth_token_secret=S was refused while another
\* token was held.
C2_Witness ==
    /\ call.op = "getRequestTokenParamsFrom"
    /\ call.args.response.ok
    /\ call.args.response.text =
        K_oauth_token \o <<"=", "T", "&">> \o K_oauth_token_secret \o <<"=", "S">>
    /\ outcome.error = "Unconfirmed callback"
    /\ token = <<"t", "k">>

-----------------------------------------------------------------------------
(* C3 *)

\* C3: the token and the token secret are always the pair most recently
\* handed to setToken (by the caller, by the reset of
\* makeRequestForRequestToken, or by a token exchange that returned), and
\* after a token exchange that returned they are the oauth_token and the
\* oauth_token_secret of the response's body.
C3_OneLivePair ==
    /\ token = written.token
    /\ tokenSecret = written.tokenSecret
    /\ (call.op \in TokenExchanges /\ outcome.kind = "return")
        => /\ outcome.params = URLSearchParams(call.args.response.text)
           /\ token = get(outcome.params, K_oauth_token)
           /\ tokenSecret = get(outcome.params, K_oauth_token_secret)

\* An access-token exchange has set the pair of its body, U& and the empty
\* secret.
C3_Witness ==
    /\ call.op = "getAccessTokenParamsFrom"
    /\ outcome.kind = "return"
    /\ token = <<"U", "&">>
    /\ tokenSecret = <<>>
    /\ written = [token |-> <<"U", "&">>, tokenSecret |-> <<>>]

-----------------------------------------------------------------------------
(* C4 *)

\* C4: the request of makeRequestForRequestToken has no oauth_token among
\* its OAuth parameters or its credentials, is signed with the key of an
\* empty token secret, and the token and the token secret are empty when
\* the call returns, whatever they were before.
C4_RequestTokenResets ==
    call.op = "makeRequestForRequestToken"
        => /\ token = <<>>
           /\ tokenSecret = <<>>
           /\ ~HasKey(signing.oAuthParams, K_oauth_token)
           /\ \A i \in 1..Len(outcome.request.Authorization.credentials) :
                outcome.request.Authorization.credentials[i].key # K_oauth_token
           /\ signing.keyString = encodePercent(consumerSecret) \o <<"&">>
           /\ signing.signature =
                encodeBase64(hmacSHA1(
                    parseUint8Array(signing.baseString),
                    parseUint8Array(encodePercent(consumerSecret) \o <<"&">>)))

\* makeRequestForRequestToken has been called after generateAuthURL gave a
\* URL with the token tk in it: a held token was reset.
C4_Witness ==
    /\ call.op = "makeRequestForRequestToken"
    /\ authLog.valid
    /\ authLog.reset
    /\ authLog.url =
        <<"h", ":", "/", "r", "?">> \o K_oauth_token
            \o <<"=", "t", "k", "&", "x", "=", "%", "2", "8", "%", "2", "9">>
    /\ token = <<>>
    /\ tokenSecret = <<>>

-----------------------------------------------------------------------------
(* C5 *)

\* The step is a generateAuthURL call with the arguments of the call on
\* record.
RepeatsAuthURL ==
    /\ call'.op = "generateAuthURL"
    /\ authLog.valid
    /\ call'.args.url = authLog.authURL
    /\ call'.args.options.params = authLog.params

\* The step changes the token or the token secret.
PairChanges == token' # token \/ tokenSecret' # tokenSecret

\* C5 as stated: no request-building call changes the token pair (so none
\* moves the client between Unauthorized and a state with a token), and a
\* generateAuthURL call with the arguments of an earlier one, with no
\* setToken call and no successful token exchange between them, returns the
\* URL the earlier one returned.
C5_BuildersKeepState ==
    [][/\ call'.op \in RequestBuilders => ~PairChanges
       /\ RepeatsAuthURL => outcome'.url = authLog.url]_vars

\* C5 amended: makeRequestForAccessToken, makeRequestForResource and
\* generateAuthURL leave the token pair as it was, makeRequestForRequestToken
\* leaves it empty, the pair changes only in a setToken call, a
\* makeRequestForRequestToken call or a token exchange that returned, and a
\* generateAuthURL call with the arguments of an earlier one, with none of
\* those three between them, returns the URL the earlier one returned.
C5_OnlyRequestTokenResets ==
    [][/\ call'.op \in RequestBuilders \ {"makeRequestForRequestToken"}
            => ~PairChanges
       /\ call'.op = "makeRequestForRequestToken" => Unauthorized'
       /\ PairChanges
            => \/ call'.op \in {"setToken", "makeRequestForRequestToken"}
               \/ call'.op \in TokenExchanges /\ outcome'.kind = "return"
       /\ (RepeatsAuthURL /\ ~authLog.reset) => outcome'.url = authLog.url]_vars

\* A resource request was built after generateAuthURL gave a URL with the
\* held token tk in it, and the token is still held.
C5_Witness ==
    /\ call.op = "makeRequestForResource"
    /\ authLog.valid
    /\ ~authLog.reset
    /\ token = <<"t", "k">>
    /\ tokenSecret = <<"&", "s">>
    /\ authLog.url =
        <<"h", ":", "/", "r", "?">> \o K_oauth_token
            \o <<"=", "t", "k", "&", "x", "=", "%", "2", "8", "%", "2", "9">>

-----------------------------------------------------------------------------
(* C6 *)

\* The pairs of the three lists, encoded.
CanonEncoded ==
    EncodedPairs(canonCase.params \o canonCase.oAuthParams
                    \o canonCase.bodyParams)

\* C6: however the pairs are moved within and across the query, OAuth and
\* body lists, the parameter string is the one the first arrangement gave;
\* its key=value pieces are the percent-encoded pairs of the lists, each as
\* often as the lists hold it, in ascending order of encoded key and, for
\* equal encoded keys, of encoded value.
C6_CanonicalString ==
    canonCase.pc \in {"done", "rearranged"}
        => LET pieces == EncodedPairsOf(canonCase.string)
           IN  /\ canonCase.string = canonCase.first
               /\ SamePairs(pieces, CanonEncoded)
               /\ SamePairs(CanonEncoded, pieces)
               /\ \A i \in 1..(Len(pieces) - 1) :
                    PairLessEq(pieces[i], pieces[i + 1])

\* The pairs (*, {), (+, 1), (*, 1) have been rearranged so that they stand
\* in another order than the one they were drawn in, one to a list, and
\* the string is %2B=1&%2a=%7B&%2a=1.
C6_Witness ==
    /\ canonCase.pc = "rearranged"
    /\ canonCase.params = <<Pair(<<"*">>, <<"{">>)>>
    /\ canonCase.oAuthParams = <<Pair(<<"+">>, <<"1">>)>>
    /\ canonCase.bodyParams = <<Pair(<<"*">>, <<"1">>)>>
    /\ canonCase.string =
        <<"%", "2", "B", "=", "1", "&", "%", "2", "a", "=", "%", "7", "B",
          "&", "%", "2", "a", "=", "1">>

-----------------------------------------------------------------------------
(* C7 *)

\* C7: the key string of every signed request is the percent-encoded
\* consumer secret, "&", and the percent-encoded token secret the client
\* holds; it has exactly one "&", neither side of which has an "&" of a
\* secret left as it is, and it is SECRET& when the consumer secret is
\* SECRET and no token is held.
C7_KeyString ==
    call.op \in SignedRequests
        => LET sides == Split(signing.keyString, "&")
           IN  /\ signing.keyString =
                    encodePercent(consumerSecret) \o <<"&">>
                        \o encodePercent(tokenSecret)
               /\ Count(signing.keyString, "&") = 1
               /\ Len(sides) = 2
               /\ percentDecode(sides[1]) = consumerSecret
               /\ tokenSecret # Null => percentDecode(sides[2]) = tokenSecret
               /\ (consumerSecret = SECRET /\ tokenSecret = <<>>)
                    => signing.keyString = <<"S", "E", "C", "R", "E", "T", "&">>
               /\ signing.signature =
                    encodeBase64(hmacSHA1(parseUint8Array(signing.baseString),
                                          parseUint8Array(signing.keyString)))

\* A request was signed with the secrets s& and &s: the key is s%26&%26s.
C7_Witness ==
    /\ call.op = "makeRequestForResource"
    /\ consumerSecret = <<"s", "&">>
    /\ tokenSecret = <<"&", "s">>
    /\ signing.keyString = <<"s", "%", "2", "6", "&", "%", "2", "6", "s">>

-----------------------------------------------------------------------------
(* C8 *)

\* The unreserved set: A-Z a-z 0-9 - _ . ~
Unreserved ==
    UpperChars \cup LowerChars \cup DigitChars \cup {"-", "_", ".", "~"}

\* The piece is "%" and the two hex digits of the byte.
IsEscapeOf(piece, byte) ==
    /\ Len(piece) = 3
    /\ piece[1] = "%"
    /\ IsHex(piece[2])
    /\ IsHex(piece[3])
    /\ 16 * HexValue(piece[2]) + HexValue(piece[3]) = byte

\* The text is the escapes of the bytes, one after the other.
IsEscapesOf(text, bytes) ==
    /\ Len(text) = 3 * Len(bytes)
    /\ \A i \in 1..Len(bytes) :
        IsEscapeOf(SubSeq(text, 3 * i - 2, 3 * i), bytes[i])

\* What the encoder is to give for one character.
IsEncodingOfChar(text, c) ==
    IF c \in Unreserved THEN text = <<c>> ELSE IsEscapesOf(text, Utf8[c])

\* C8: the percent-encoder leaves each character of A-Z a-z 0-9 - _ . ~ as
\* it is and puts for every other character, ! ' ( ) * among them, "%" and
\* two hex digits for each byte of its UTF-8 form; the encoding of a string
\* is the encodings of its characters one after the other, and decoding it
\* gives the string back.
C8_PercentEncode ==
    /\ encCase.pc \in {"encoded", "decoded"}
        => /\ encCase.encoded =
                Flatten([i \in 1..Len(encCase.input) |->
                            encodePercent(<<encCase.input[i]>>)])
           /\ \A i \in 1..Len(encCase.input) :
                IsEncodingOfChar(encodePercent(<<encCase.input[i]>>),
                                 encCase.input[i])
           /\ \A i \in 1..Len(encCase.encoded) :
                encCase.encoded[i] \in Unreserved \cup {"%"}
    /\ encCase.pc = "decoded" => encCase.decoded = encCase.input

\* The string *é was encoded to %2a%C3%A9 and decoded back.
C8_Witness ==
    /\ encCase.pc = "decoded"
    /\ encCase.input = <<"*", NonAscii>>
    /\ encCase.encoded = <<"%", "2", "a", "%", "C", "3", "%", "A", "9">>
    /\ encCase.decoded = encCase.input

-----------------------------------------------------------------------------
(* C9 *)

\* The credentials of the request the call returned.
HeaderCredentials == outcome.request.Authorization.credentials

\* The signature made anew from the lists that were handed to the signing
\* and the secrets the client holds.
Recomputed ==
    encodeBase64(hmacSHA1(
        parseUint8Array(
            baseString(signing.method, signing.requestURL,
                       paramsString(signing.params, signing.oAuthParams,
                                    signing.bodyParams))),
        parseUint8Array(keyString(consumerSecret, tokenSecret))))

\* C9: the OAuth parameters handed to the signing of every signed request
\* have neither oauth_signature nor realm among them; the Authorization
\* header has a credential for each of them, in their order, and after
\* them one oauth_signature, the only one, which is the signature made
\* from those parameters; and the header of makeRequestForRequestToken
\* without a callbackURL has oauth_callback="oob".
C9_HeaderCredentials ==
    call.op \in SignedRequests
        => LET n == Len(signing.oAuthParams)
           IN  /\ ~HasKey(signing.oAuthParams, K_oauth_signature)
               /\ ~HasKey(signing.oAuthParams, K_realm)
               /\ outcome.kind = "return"
               /\ outcome.request.Authorization.type = type
               /\ Len(HeaderCredentials) = n + 1
               /\ \A i \in 1..n :
                    HeaderCredentials[i] =
                        [key |-> encodePercent(signing.oAuthParams[i][1]),
                         value |-> encodePercent(signing.oAuthParams[i][2]),
                         signature |-> NoSignature]
               /\ HeaderCredentials[n + 1].key = K_oauth_signature
               /\ HeaderCredentials[n + 1].signature = Recomputed
               /\ Recomputed # NoSignature
               /\ Cardinality({i \in 1..Len(HeaderCredentials) :
                        HeaderCredentials[i].key = K_oauth_signature}) = 1
               /\ (/\ call.op = "makeRequestForRequestToken"
                   /\ call.args.options.callbackURL = Undefined)
                    => \E i \in 1..n :
                        /\ HeaderCredentials[i].key = K_oauth_callback
                        /\ HeaderCredentials[i].value = OOB

\* makeRequestForRequestToken was called without a callbackURL: the first
\* of the seven credentials is oauth_callback="oob", the last the signature.
C9_Witness ==
    /\ call.op = "makeRequestForRequestToken"
    /\ call.args.options.callbackURL = Undefined
    /\ Len(HeaderCredentials) = 7
    /\ HeaderCredentials[1].key = K_oauth_callback
    /\ HeaderCredentials[1].value = OOB
    /\ HeaderCredentials[7].key = K_oauth_signature
    /\ HeaderCredentials[7].signature = signing.signature

-----------------------------------------------------------------------------
(* C10 *)

\* The pairs the request carries as parameters, encoded: those of the
\* query of its URL and, when its body is form-urlencoded, those of its
\* body.
Transmitted ==
    EncodedPairsOf(QueryOf(outcome.request.url))
        \o (IF outcome.request.ContentType = FormURLEncoded
            THEN EncodedPairsOf(outcome.request.body)
            ELSE <<>>)

\* The pairs that went into the base string beside the OAuth parameters,
\* encoded.
SignedNonOAuth == EncodedPairs(signing.params \o signing.bodyParams)

\* C10: in every request of makeRequestForResource and of
\* makeRequestForRequestToken the parameters that are signed beside the
\* OAuth parameters are the parameters the request carries in the query of
\* its URL or in its form-urlencoded body, each as often.
C10_SignedIsTransmitted ==
    call.op \in {"makeRequestForResource", "makeRequestForRequestToken"}
        => /\ SamePairs(SignedNonOAuth, Transmitted)
           /\ SamePairs(Transmitted, SignedNonOAuth)

-----------------------------------------------------------------------------
(* C11 *)

\* The calls whose OAuth parameters carry the token.
TokenBearing == {"makeRequestForAccessToken", "makeRequestForResource"}

\* The oauth_token of the OAuth parameters and the token secret of the key
\* string are those of the pair p.
OfPair(oAuthParams, key, p) ==
    /\ get(oAuthParams, K_oauth_token) = p.token
    /\ key = encodePercent(consumerSecret) \o <<"&">> \o encodePercent(p.tokenSecret)

\* C11: in every request of makeRequestForAccessToken and of
\* makeRequestForResource, returned or still waiting for hmacSHA1, the
\* oauth_token of the OAuth parameters and the token secret of the signing
\* key are those of one pair that was written together by one setToken call
\* or one token exchange (the pair the object held when the call was made),
\* however the call is interleaved with setToken, makeRequestForRequestToken
\* and the token exchanges at the awaits.
C11_OnePairPerRequest ==
    /\ (call.op \in TokenBearing /\ outcome.kind = "return")
        => /\ \E p \in writtenPairs :
                OfPair(signing.oAuthParams, signing.keyString, p)
           /\ signing.signature =
                encodeBase64(hmacSHA1(parseUint8Array(signing.baseString),
                                      parseUint8Array(signing.keyString)))
           /\ \E i \in 1..Len(outcome.request.Authorization.credentials) :
                /\ outcome.request.Authorization.credentials[i].key = K_oauth_token
                /\ outcome.request.Authorization.credentials[i].value =
                        encodePercent(get(signing.oAuthParams, K_oauth_token))
           /\ outcome.request.Authorization.credentials[
                    Len(outcome.request.Authorization.credentials)].signature
                = signing.signature
    /\ \A c \in suspended :
        c.op \in TokenBearing
            => /\ c.pair \in writtenPairs
               /\ OfPair(c.locals.oAuthParams, c.locals.keyString, c.pair)

\* A resource request made while the pair tk, &s was held has returned
\* after a token exchange has set the pair T, S: it carries tk and is signed
\* with the key SECRET&%26s.
C11_Witness ==
    /\ call.op = "makeRequestForResource"
    /\ outcome.kind = "return"
    /\ token = <<"T">>
    /\ tokenSecret = <<"S">>
    /\ get(signing.oAuthParams, K_oauth_token) = <<"t", "k">>
    /\ signing.keyString = SECRET \o <<"&", "%", "2", "6", "s">>

-----------------------------------------------------------------------------
(* C12 *)

\* The value is a string: neither null nor undefined.
IsString(v) == v # Null /\ v # Undefined

\* C12: in every state the token and the token secret are strings, the
\* empty string when no token is held, and neither is null or undefined.
C12_TokenFieldsAreStrings ==
    /\ IsString(token)
    /\ IsString(tokenSecret)

====
